---------------------------- MODULE Spec2Model ----------------------------
(***************************************************************************)
(* Model of multi_tenet/middleware/TenantMiddleware.py.                    *)
(*                                                                         *)
(* TenantMiddleware.__init__ creates the dictionary connection_pools and a *)
(* lock, then runs _initialize_pools, which walks settings.TENANT_DATABASES *)
(* and stores the result of psycopg2.connect under the tenant's key, or    *)
(* prints the exception.  TenantMiddleware.__call__ reads the x-org header *)
(* (default 'tenant1'), answers JsonResponse({'error': 'Invalid tenant'})  *)
(* for a key that is not in the dictionary, and otherwise sets             *)
(* request.tenant_id and request.db_pool and calls get_response(request).  *)
(*                                                                         *)
(* psycopg2.connect and get_response are collaborators outside the file:   *)
(* connect either returns a fresh connection object or raises, and the     *)
(* next handler either returns a response or raises.                       *)
(***************************************************************************)
EXTENDS Naturals, Sequences, FiniteSets

\* Bounds of the model.
MaxTenants == 2
NumRequests == 2
MaxInFlight == 21

\* Line 20: the second positional argument of psycopg2.connect(1, 20, ...),
\* the maximum size of a tenant's pool.
PoolMax == 20

\* Names the tenant keys are drawn from.
IdPool == <<"tenant1", "tenant2", "tenant3", "tenant4">>

TenantIds == {IdPool[i] : i \in 1..MaxTenants}

Requests == 1..NumRequests

\* request.headers without an 'x-org' entry.
NoHeader == "<no x-org header>"

HeaderValues == TenantIds \cup {NoHeader}

\* A request attribute that has not been set.
NoAttr == "<unset>"

\* Python's None, in the place of a connection object.
None == [config |-> "None", conn |-> 0]

\* settings.TENANT_DATABASES is a dict: its keys are distinct, and items()
\* yields them in insertion order.  A table is the sequence of its keys; the
\* db_config of a key is identified by the key.
IsInjective(s) == \A i, j \in DOMAIN s : s[i] = s[j] => i = j

ConfigTables ==
    {s \in UNION {[1..n -> TenantIds] : n \in 0..MaxTenants} : IsInjective(s)}

VARIABLES
    settings,          \* settings.TENANT_DATABASES, as the sequence of its keys
    connection_pools,  \* self.connection_pools
    lock,              \* self.lock
    init_pc,           \* position of _initialize_pools: "for", "store", "except", "done"
    init_i,            \* index of the item the for loop is at
    connect_result,    \* value psycopg2.connect returned, not yet stored
    next_conn,         \* number of connection objects created so far
    connect_log,       \* history: every psycopg2.connect call and what it gave
    printed,           \* history: tenants whose exception line 28 printed
    pc,                \* per request: position of __call__
    header,            \* per request: value of the x-org header
    tenant_id,         \* per request: local tenant_id
    req_tenant_id,     \* per request: request.tenant_id
    req_db_pool,       \* per request: request.db_pool
    next_seen,         \* per request: what get_response was called with
    response,          \* per request: what __call__ returned or raised
    in_flight,         \* per tenant: requests inside get_response with its handle
    unreachable        \* tenants whose database has gone down since startup

vars == <<settings, connection_pools, lock, init_pc, init_i, connect_result,
          next_conn, connect_log, printed, pc, header, tenant_id,
          req_tenant_id, req_db_pool, next_seen, response, in_flight,
          unreachable>>

initVars == <<connection_pools, init_pc, init_i, connect_result, next_conn,
              connect_log, printed>>

reqVars == <<pc, header, tenant_id, req_tenant_id, req_db_pool, next_seen,
             response>>

\* get_response has not been called with the request.
NotCalled == [tenant_id |-> NoAttr, db_pool |-> None]

\* The state when __init__ reaches line 14: get_response, an empty
\* dictionary and a fresh, unlocked lock are set; no request exists yet.
Init ==
    /\ settings \in ConfigTables
    /\ connection_pools = [k \in {} |-> None]
    /\ lock = "unlocked"
    /\ init_pc = "for"
    /\ init_i = 1
    /\ connect_result = None
    /\ next_conn = 0
    /\ connect_log = <<>>
    /\ printed = <<>>
    /\ pc = [r \in Requests |-> "idle"]
    /\ header = [r \in Requests |-> NoHeader]
    /\ tenant_id = [r \in Requests |-> NoAttr]
    /\ req_tenant_id = [r \in Requests |-> NoAttr]
    /\ req_db_pool = [r \in Requests |-> None]
    /\ next_seen = [r \in Requests |-> NotCalled]
    /\ response = [r \in Requests |-> "none"]
    /\ in_flight = [t \in TenantIds |-> 0]
    /\ unreachable = {}

----------------------------------------------------------------------------
(* _initialize_pools *)

\* d[k] = v on a dict.
DictSet(d, k, v) ==
    [x \in DOMAIN d \cup {k} |-> IF x = k THEN v ELSE d[x]]

\* Line 17 has a next item: lines 19-26, psycopg2.connect returns a new
\* connection object made from this tenant's db_config.
InitConnectOk ==
    /\ init_pc = "for"
    /\ init_i <= Len(settings)
    /\ connect_result' = [config |-> settings[init_i], conn |-> next_conn + 1]
    /\ next_conn' = next_conn + 1
    /\ connect_log' = Append(connect_log,
                             [tenant |-> settings[init_i],
                              handle |-> connect_result'])
    /\ init_pc' = "store"
    /\ UNCHANGED <<unreachable, in_flight>>
    /\ UNCHANGED <<settings, connection_pools, lock, init_i, printed>>
    /\ UNCHANGED reqVars

\* Lines 19-26 raise (a missing db_config key, or psycopg2.connect failing):
\* the assignment of line 19 does not happen and control goes to line 27.
InitConnectFail ==
    /\ init_pc = "for"
    /\ init_i <= Len(settings)
    /\ connect_result' = None
    /\ connect_log' = Append(connect_log,
                             [tenant |-> settings[init_i], handle |-> None])
    /\ init_pc' = "except"
    /\ UNCHANGED <<unreachable, in_flight>>
    /\ UNCHANGED <<settings, connection_pools, lock, init_i, next_conn, printed>>
    /\ UNCHANGED reqVars

\* Mutant of InitStore: the dictionary is replaced by a one-entry dictionary
\* (self.connection_pools = {tenant_id: conn}) instead of being updated.
InitStoreReplacesDict ==
    /\ init_pc = "store"
    /\ connection_pools' = [k \in {settings[init_i]} |-> connect_result]
    /\ connect_result' = None
    /\ init_i' = init_i + 1
    /\ init_pc' = "for"
    /\ UNCHANGED <<unreachable, in_flight>>
    /\ UNCHANGED <<settings, lock, next_conn, connect_log, printed>>
    /\ UNCHANGED reqVars

\* Line 19: self.connection_pools[tenant_id] = <the connection>.
InitStore ==
    /\ init_pc = "store"
    /\ connection_pools' =
           DictSet(connection_pools, settings[init_i], connect_result)
    /\ connect_result' = None
    /\ init_i' = init_i + 1
    /\ init_pc' = "for"
    /\ UNCHANGED <<unreachable, in_flight>>
    /\ UNCHANGED <<settings, lock, next_conn, connect_log, printed>>
    /\ UNCHANGED reqVars

\* Mutant of InitExcept: the handler also stores None under the tenant's key.
InitExceptStoresNone ==
    /\ init_pc = "except"
    /\ printed' = Append(printed, settings[init_i])
    /\ connection_pools' = DictSet(connection_pools, settings[init_i], None)
    /\ init_i' = init_i + 1
    /\ init_pc' = "for"
    /\ UNCHANGED <<unreachable, in_flight>>
    /\ UNCHANGED <<settings, lock, connect_result, next_conn, connect_log>>
    /\ UNCHANGED reqVars

\* Mutant of InitExcept: the handler leaves the loop after printing.
InitExceptAborts ==
    /\ init_pc = "except"
    /\ printed' = Append(printed, settings[init_i])
    /\ init_pc' = "done"
    /\ UNCHANGED <<unreachable, in_flight>>
    /\ UNCHANGED <<settings, connection_pools, lock, init_i, connect_result,
                   next_conn, connect_log>>
    /\ UNCHANGED reqVars

\* Mutant of InitExcept: the handler goes back to the same item and tries
\* its connection again.
InitExceptRetries ==
    /\ init_pc = "except"
    /\ printed' = Append(printed, settings[init_i])
    /\ init_pc' = "for"
    /\ UNCHANGED <<unreachable, in_flight>>
    /\ UNCHANGED <<settings, connection_pools, lock, init_i, connect_result,
                   next_conn, connect_log>>
    /\ UNCHANGED reqVars

\* Lines 27-28: except Exception as e: print(e); the loop goes on.
InitExcept ==
    /\ init_pc = "except"
    /\ printed' = Append(printed, settings[init_i])
    /\ init_i' = init_i + 1
    /\ init_pc' = "for"
    /\ UNCHANGED <<unreachable, in_flight>>
    /\ UNCHANGED <<settings, connection_pools, lock, connect_result, next_conn,
                   connect_log>>
    /\ UNCHANGED reqVars

\* Line 17 has no more items: _initialize_pools and __init__ return.
InitReturn ==
    /\ init_pc = "for"
    /\ init_i > Len(settings)
    /\ init_pc' = "done"
    /\ UNCHANGED <<unreachable, in_flight>>
    /\ UNCHANGED <<settings, connection_pools, lock, init_i, connect_result,
                   next_conn, connect_log, printed>>
    /\ UNCHANGED reqVars

InitStep ==
    \/ InitConnectOk
    \/ InitConnectFail
    \/ InitStore
    \/ InitExcept
    \/ InitReturn

----------------------------------------------------------------------------
(* __call__ *)

\* Mutant of Published: the object takes requests while _initialize_pools
\* is still running (the loop started on another thread).
PublishedAtConstruction == TRUE

\* The middleware object exists for callers once __init__ has returned,
\* which is after _initialize_pools (line 14) has returned.
Published == init_pc = "done"

\* Mutant of HeaderGet: no default (request.headers.get('x-org')).
HeaderGetNoDefault(h) == h

\* Line 30: request.headers.get('x-org', 'tenant1').
HeaderGet(h) == IF h = NoHeader THEN "tenant1" ELSE h

\* Mutant of Contains: a tenant whose database is down counts as absent.
ContainsReachable(t) == t \in DOMAIN connection_pools /\ t \notin unreachable

\* Line 32: tenant_id in self.connection_pools.
Contains(t) == t \in DOMAIN connection_pools

\* Lines 29-30: a request comes in and its tenant id is read.
Call(r, h) ==
    /\ Published
    /\ pc[r] = "idle"
    /\ header' = [header EXCEPT ![r] = h]
    /\ tenant_id' = [tenant_id EXCEPT ![r] = HeaderGet(h)]
    /\ pc' = [pc EXCEPT ![r] = "line32"]
    /\ UNCHANGED <<unreachable, in_flight>>
    /\ UNCHANGED <<settings, lock, req_tenant_id, req_db_pool, next_seen,
                   response>>
    /\ UNCHANGED initVars

\* Mutant of RejectUnknown: request.tenant_id is set before the test.
RejectAfterAttach(r) ==
    /\ pc[r] = "line32"
    /\ ~Contains(tenant_id[r])
    /\ req_tenant_id' = [req_tenant_id EXCEPT ![r] = tenant_id[r]]
    /\ response' = [response EXCEPT ![r] = "Invalid tenant"]
    /\ pc' = [pc EXCEPT ![r] = "rejected"]
    /\ UNCHANGED <<unreachable, in_flight>>
    /\ UNCHANGED <<settings, lock, header, tenant_id, req_db_pool, next_seen>>
    /\ UNCHANGED initVars

\* Mutant of RejectUnknown: the miss is remembered in the dictionary
\* (self.connection_pools[tenant_id] = None).
RejectCachesNone(r) ==
    /\ pc[r] = "line32"
    /\ ~Contains(tenant_id[r])
    /\ connection_pools' = DictSet(connection_pools, tenant_id[r], None)
    /\ response' = [response EXCEPT ![r] = "Invalid tenant"]
    /\ pc' = [pc EXCEPT ![r] = "rejected"]
    /\ UNCHANGED <<unreachable, in_flight>>
    /\ UNCHANGED <<settings, lock, header, tenant_id, req_tenant_id,
                   req_db_pool, next_seen>>
    /\ UNCHANGED <<init_pc, init_i, connect_result, next_conn, connect_log,
                   printed>>

\* Lines 32-35: the tenant id is not a key: return the JsonResponse.
RejectUnknown(r) ==
    /\ pc[r] = "line32"
    /\ ~Contains(tenant_id[r])
    /\ response' = [response EXCEPT ![r] = "Invalid tenant"]
    /\ pc' = [pc EXCEPT ![r] = "rejected"]
    /\ UNCHANGED <<unreachable, in_flight>>
    /\ UNCHANGED <<settings, lock, header, tenant_id, req_tenant_id,
                   req_db_pool, next_seen>>
    /\ UNCHANGED initVars

\* Line 32: the tenant id is a key: fall through to line 36.
PassKnown(r) ==
    /\ pc[r] = "line32"
    /\ Contains(tenant_id[r])
    /\ pc' = [pc EXCEPT ![r] = "line36"]
    /\ UNCHANGED <<unreachable, in_flight>>
    /\ UNCHANGED <<settings, lock, header, tenant_id, req_tenant_id,
                   req_db_pool, next_seen, response>>
    /\ UNCHANGED initVars

\* Mutant of Attach: the handle is looked up under another key when there
\* is one.
AttachOtherTenant(r) ==
    /\ pc[r] = "line36"
    /\ req_tenant_id' = [req_tenant_id EXCEPT ![r] = tenant_id[r]]
    /\ \E k \in DOMAIN connection_pools :
           /\ (k = tenant_id[r]) => (DOMAIN connection_pools = {k})
           /\ req_db_pool' = [req_db_pool EXCEPT ![r] = connection_pools[k]]
           /\ next_seen' = [next_seen EXCEPT ![r] =
                                [tenant_id |-> tenant_id[r],
                                 db_pool |-> connection_pools[k]]]
    /\ in_flight' = [in_flight EXCEPT ![tenant_id[r]] = @ + 1]
    /\ pc' = [pc EXCEPT ![r] = "handler"]
    /\ UNCHANGED <<settings, unreachable, lock, header, tenant_id, response>>
    /\ UNCHANGED initVars

\* Mutant of Attach: the entry is taken out of the dictionary
\* (self.connection_pools.pop(tenant_id)), a KeyError if it is not there.
AttachPops(r) ==
    /\ pc[r] = "line36"
    /\ req_tenant_id' = [req_tenant_id EXCEPT ![r] = tenant_id[r]]
    /\ IF tenant_id[r] \in DOMAIN connection_pools
       THEN /\ req_db_pool' =
                   [req_db_pool EXCEPT ![r] = connection_pools[tenant_id[r]]]
            /\ next_seen' =
                   [next_seen EXCEPT ![r] =
                        [tenant_id |-> tenant_id[r],
                         db_pool |-> connection_pools[tenant_id[r]]]]
            /\ connection_pools' =
                   [k \in DOMAIN connection_pools \ {tenant_id[r]} |->
                        connection_pools[k]]
            /\ pc' = [pc EXCEPT ![r] = "handler"]
            /\ UNCHANGED response
            /\ in_flight' = [in_flight EXCEPT ![tenant_id[r]] = @ + 1]
       ELSE /\ response' = [response EXCEPT ![r] = "KeyError"]
            /\ pc' = [pc EXCEPT ![r] = "raised"]
            /\ UNCHANGED <<req_db_pool, next_seen, connection_pools, in_flight>>
    /\ UNCHANGED <<settings, unreachable, lock, header, tenant_id>>
    /\ UNCHANGED <<init_pc, init_i, connect_result, next_conn, connect_log,
                   printed>>

\* Mutant of Attach: lines 36-38 run under self.lock, which is held while
\* get_response runs.
AttachUnderLock(r) ==
    /\ pc[r] = "line36"
    /\ lock = "unlocked"
    /\ lock' = "locked"
    /\ tenant_id[r] \in DOMAIN connection_pools
    /\ req_tenant_id' = [req_tenant_id EXCEPT ![r] = tenant_id[r]]
    /\ req_db_pool' =
           [req_db_pool EXCEPT ![r] = connection_pools[tenant_id[r]]]
    /\ next_seen' = [next_seen EXCEPT ![r] =
                         [tenant_id |-> tenant_id[r],
                          db_pool |-> connection_pools[tenant_id[r]]]]
    /\ in_flight' = [in_flight EXCEPT ![tenant_id[r]] = @ + 1]
    /\ pc' = [pc EXCEPT ![r] = "handler"]
    /\ UNCHANGED <<settings, unreachable, header, tenant_id, response>>
    /\ UNCHANGED initVars

\* Mutant of Attach: every request is given a connection of its own, opened
\* for it, instead of the stored one.
AttachFreshConnection(r) ==
    /\ pc[r] = "line36"
    /\ tenant_id[r] \in DOMAIN connection_pools
    /\ next_conn' = next_conn + 1
    /\ req_tenant_id' = [req_tenant_id EXCEPT ![r] = tenant_id[r]]
    /\ req_db_pool' =
           [req_db_pool EXCEPT ![r] =
                [config |-> tenant_id[r], conn |-> next_conn + 1]]
    /\ next_seen' = [next_seen EXCEPT ![r] =
                         [tenant_id |-> tenant_id[r],
                          db_pool |-> [config |-> tenant_id[r],
                                       conn |-> next_conn + 1]]]
    /\ in_flight' = [in_flight EXCEPT ![tenant_id[r]] = @ + 1]
    /\ pc' = [pc EXCEPT ![r] = "handler"]
    /\ UNCHANGED <<settings, unreachable, lock, header, tenant_id, response>>
    /\ UNCHANGED <<connection_pools, init_pc, init_i, connect_result,
                   connect_log, printed>>

\* Lines 36-38: set request.tenant_id, look the key up (a KeyError if it is
\* not there), set request.db_pool and call get_response(request).
Attach(r) ==
    /\ pc[r] = "line36"
    /\ req_tenant_id' = [req_tenant_id EXCEPT ![r] = tenant_id[r]]
    /\ IF tenant_id[r] \in DOMAIN connection_pools
       THEN /\ req_db_pool' =
                   [req_db_pool EXCEPT ![r] = connection_pools[tenant_id[r]]]
            /\ next_seen' =
                   [next_seen EXCEPT ![r] =
                        [tenant_id |-> tenant_id[r],
                         db_pool |-> connection_pools[tenant_id[r]]]]
            /\ pc' = [pc EXCEPT ![r] = "handler"]
            /\ UNCHANGED response
            /\ in_flight' = [in_flight EXCEPT ![tenant_id[r]] = @ + 1]
       ELSE /\ response' = [response EXCEPT ![r] = "KeyError"]
            /\ pc' = [pc EXCEPT ![r] = "raised"]
            /\ UNCHANGED <<req_db_pool, next_seen, in_flight>>
    /\ UNCHANGED <<settings, unreachable, lock, header, tenant_id>>
    /\ UNCHANGED initVars

\* Line 38: get_response returns, and __call__ returns its response.
HandlerReturn(r) ==
    /\ pc[r] = "handler"
    /\ response' = [response EXCEPT ![r] = "response"]
    /\ pc' = [pc EXCEPT ![r] = "returned"]
    /\ in_flight' = [in_flight EXCEPT ![tenant_id[r]] = @ - 1]
    /\ UNCHANGED <<settings, unreachable, lock, header, tenant_id, req_tenant_id,
                   req_db_pool, next_seen>>
    /\ UNCHANGED initVars

\* Line 38: get_response raises, and the exception leaves __call__.
HandlerRaise(r) ==
    /\ pc[r] = "handler"
    /\ response' = [response EXCEPT ![r] = "exception"]
    /\ pc' = [pc EXCEPT ![r] = "raised"]
    /\ in_flight' = [in_flight EXCEPT ![tenant_id[r]] = @ - 1]
    /\ UNCHANGED <<settings, unreachable, lock, header, tenant_id, req_tenant_id,
                   req_db_pool, next_seen>>
    /\ UNCHANGED initVars

\* The database of a tenant whose connection was made at startup goes down.
\* Nothing in the middleware reads or is told about it.
DbGoesDown(t) ==
    /\ Published
    /\ t \in DOMAIN connection_pools
    /\ t \notin unreachable
    /\ unreachable' = unreachable \cup {t}
    /\ UNCHANGED <<settings, lock, in_flight>>
    /\ UNCHANGED initVars
    /\ UNCHANGED reqVars

Dispatch(r) ==
    \/ \E h \in HeaderValues : Call(r, h)
    \/ RejectUnknown(r)
    \/ PassKnown(r)
    \/ Attach(r)
    \/ HandlerReturn(r)
    \/ HandlerRaise(r)

Next ==
    \/ InitStep
    \/ \E r \in Requests : Dispatch(r)
    \/ \E t \in TenantIds : DbGoesDown(t)

Spec == Init /\ [][Next]_vars

----------------------------------------------------------------------------
(* Many requests at once: requests counted per tenant, not told apart *)

\* Lines 29-38 for one more request with header h whose tenant is a key: the
\* test of line 32 passes, the tenant's handle is attached and get_response
\* is entered.  No statement on the way waits or counts.
Serve(h) ==
    /\ Published
    /\ Contains(HeaderGet(h))
    /\ in_flight[HeaderGet(h)] < MaxInFlight
    /\ in_flight' = [in_flight EXCEPT ![HeaderGet(h)] = @ + 1]
    /\ UNCHANGED <<settings, lock, unreachable>>
    /\ UNCHANGED initVars
    /\ UNCHANGED reqVars

\* Line 38: get_response returns or raises for one of the counted requests.
Finish(t) ==
    /\ in_flight[t] > 0
    /\ in_flight' = [in_flight EXCEPT ![t] = @ - 1]
    /\ UNCHANGED <<settings, lock, unreachable>>
    /\ UNCHANGED initVars
    /\ UNCHANGED reqVars

NextLoad ==
    \/ InitStep
    \/ \E h \in HeaderValues : Serve(h)
    \/ \E t \in TenantIds : Finish(t)

SpecLoad == Init /\ [][NextLoad]_vars

----------------------------------------------------------------------------
(* What the history says, independently of connection_pools *)

\* Tenants whose psycopg2.connect call returned a connection.
Succeeded ==
    {connect_log[i].tenant : i \in {j \in DOMAIN connect_log :
                                        connect_log[j].handle # None}}

\* Tenants whose psycopg2.connect call raised.
Failed ==
    {connect_log[i].tenant : i \in {j \in DOMAIN connect_log :
                                        connect_log[j].handle = None}}

\* The connection object psycopg2.connect returned for tenant t.
ConstructedFor(t) ==
    connect_log[CHOOSE i \in DOMAIN connect_log :
                    connect_log[i].tenant = t /\ connect_log[i].handle # None].handle

\* A connection object that psycopg2.connect has returned.
IsConnection(h) == h.conn \in 1..next_conn /\ h.config \in TenantIds

\* Lines 33-35: a response object that __call__ builds itself, the
\* JsonResponse({'error': "Invalid tenant"}).
IsJsonResponse(resp) == resp = "Invalid tenant"

\* __call__ has decided the request: it returned the error payload, or it
\* went on to the next handler, or it raised.
Resolved(r) == pc[r] \in {"rejected", "handler", "returned", "raised"}

\* __call__ attached a handle and called the next handler.
Forwarded(r) == pc[r] \in {"handler", "returned"} \/
                (pc[r] = "raised" /\ response[r] = "exception")

----------------------------------------------------------------------------
(* Claims *)

\* C1: after initialization over any table in which any subset of the
\* constructions fail, a dispatch with tenant id t attaches a handle and
\* calls the next handler for every t whose construction succeeded, and
\* gives the unknown-tenant error for every t whose construction failed.
C1_BuildThenResolve ==
    \A r \in Requests :
        Resolved(r) =>
            /\ tenant_id[r] \in Succeeded =>
                   /\ Forwarded(r)
                   /\ req_db_pool[r] = ConstructedFor(tenant_id[r])
                   /\ next_seen[r] = [tenant_id |-> tenant_id[r],
                                      db_pool |-> ConstructedFor(tenant_id[r])]
            /\ tenant_id[r] \in Failed =>
                   /\ pc[r] = "rejected"
                   /\ response[r] = "Invalid tenant"
                   /\ next_seen[r] = NotCalled

C1_Witness ==
    \E r1, r2 \in Requests :
        /\ tenant_id[r1] \in Succeeded /\ pc[r1] = "returned"
        /\ tenant_id[r2] \in Failed /\ pc[r2] = "rejected"

\* C2: tenant isolation: whenever dispatch succeeds for tenant id t, the
\* request passed to the next handler carries tenant_id = t and the handle
\* constructed from t's own config, never one constructed from another
\* tenant's config, in every interleaving of concurrent requests.
C2_TenantIsolation ==
    \A r \in Requests :
        next_seen[r] # NotCalled =>
            /\ next_seen[r].tenant_id = HeaderGet(header[r])
            /\ next_seen[r].db_pool.config = HeaderGet(header[r])
            /\ next_seen[r].db_pool = ConstructedFor(HeaderGet(header[r]))
            /\ req_tenant_id[r] = next_seen[r].tenant_id
            /\ req_db_pool[r] = next_seen[r].db_pool

C2_Witness ==
    \E r1, r2 \in Requests :
        /\ pc[r1] = "handler" /\ pc[r2] = "handler"
        /\ next_seen[r1].tenant_id # next_seen[r2].tenant_id
        /\ next_seen[r1].db_pool # next_seen[r2].db_pool

\* C3: in every reachable state, the states in the middle of initialization
\* included, every key of connection_pools maps to a non-null, fully
\* constructed handle, and a tenant whose construction failed is never a key.
C3_RegistryWellFormed ==
    \A k \in DOMAIN connection_pools :
        /\ connection_pools[k] # None
        /\ IsConnection(connection_pools[k])
        /\ k \in Succeeded
        /\ k \notin Failed

C3_Witness ==
    /\ init_pc = "except"
    /\ init_i = Len(settings)
    /\ DOMAIN connection_pools # {}

\* C4: a construction failure for one tenant does not abort initialization:
\* the tenants are attempted one after the other in the table's order
\* whatever failed before, initialization can always take its next step
\* until it has returned, every tenant of the table has been attempted when
\* it returns, and every tenant whose construction succeeded is then a key.
C4_FailureDoesNotAbort ==
    /\ Len(connect_log) <= Len(settings)
    /\ \A i \in DOMAIN connect_log : connect_log[i].tenant = settings[i]
    /\ init_pc # "done" => ENABLED InitStep
    /\ init_pc = "done" =>
           /\ Len(connect_log) = Len(settings)
           /\ \A t \in Succeeded : Contains(t)

C4_Witness ==
    /\ init_pc = "done"
    /\ Len(settings) = 2
    /\ settings[1] \in Failed
    /\ settings[2] \in Succeeded
    /\ \E r \in Requests : pc[r] = "returned" /\ tenant_id[r] = settings[2]

\* C5: a dispatch whose request carries no tenant header behaves exactly like
\* a dispatch with tenant id "tenant1": it succeeds with tenant1's handle if
\* "tenant1" is a key of the mapping, and otherwise gives the unknown-tenant
\* error.
C5_MissingHeaderIsTenant1 ==
    \A r \in Requests :
        (pc[r] # "idle" /\ header[r] = NoHeader) =>
            /\ tenant_id[r] = "tenant1"
            /\ Resolved(r) =>
                   IF "tenant1" \in DOMAIN connection_pools
                   THEN /\ Forwarded(r)
                        /\ next_seen[r] =
                               [tenant_id |-> "tenant1",
                                db_pool |-> connection_pools["tenant1"]]
                   ELSE /\ pc[r] = "rejected"
                        /\ response[r] = "Invalid tenant"
            /\ \A q \in Requests :
                   (header[q] = "tenant1" /\ Resolved(q) /\ Resolved(r)) =>
                       /\ Forwarded(q) <=> Forwarded(r)
                       /\ next_seen[q] = next_seen[r]
                       /\ req_tenant_id[q] = req_tenant_id[r]
                       /\ req_db_pool[q] = req_db_pool[r]

C5_Witness ==
    \E r, q \in Requests :
        /\ header[r] = NoHeader /\ pc[r] = "returned"
        /\ header[q] = "tenant1" /\ pc[q] = "returned"

\* C6: a dispatch with a tenant id that is not in the mapping fails with the
\* unknown-tenant error, and in that case the next handler is never invoked
\* and no tenant_id or handle is attached to the request.
C6_UnknownTenantRejected ==
    \A r \in Requests :
        /\ (Resolved(r) /\ ~Contains(tenant_id[r])) => pc[r] = "rejected"
        /\ pc[r] = "line36" => Contains(tenant_id[r])
        /\ pc[r] = "rejected" =>
               /\ ~Contains(tenant_id[r])
               /\ response[r] = "Invalid tenant"
               /\ next_seen[r] = NotCalled
               /\ req_tenant_id[r] = NoAttr
               /\ req_db_pool[r] = None

C6_Witness ==
    \E r \in Requests :
        /\ pc[r] = "rejected"
        /\ header[r] # NoHeader
        /\ \A i \in DOMAIN settings : settings[i] # header[r]

\* C7: no dispatch can observe the mapping before initialization has
\* processed every tenant config: every dispatch step happens after the
\* initialization loop has finished.
C7_PublishedAfterInit ==
    \A r \in Requests :
        pc[r] # "idle" =>
            /\ init_pc = "done"
            /\ init_i = Len(settings) + 1
            /\ Len(connect_log) = Len(settings)

C7_Witness ==
    \E r \in Requests :
        /\ pc[r] = "line32"
        /\ Len(settings) = 2
        /\ DOMAIN connection_pools # {}

\* C8: under any interleaving of concurrent dispatch calls across several
\* tenants, each call observes the same fully built mapping and returns
\* either a fully constructed handle or the unknown-tenant error; the
\* membership test and the lookup of one call never disagree, and no call
\* writes the mapping.
C8_ConcurrentResolveConsistent ==
    \A r \in Requests :
        pc[r] # "idle" =>
            /\ DOMAIN connection_pools = Succeeded
            /\ \A t \in Succeeded : connection_pools[t] = ConstructedFor(t)
            /\ response[r] # "KeyError"
            /\ pc[r] \in {"line36", "handler", "returned", "raised"} =>
                   tenant_id[r] \in Succeeded
            /\ pc[r] \in {"handler", "returned", "raised"} =>
                   /\ IsConnection(req_db_pool[r])
                   /\ req_db_pool[r] = ConstructedFor(tenant_id[r])
            /\ pc[r] = "rejected" => tenant_id[r] \notin Succeeded

C8_Witness ==
    \E r1, r2 \in Requests :
        /\ pc[r1] = "line36" /\ pc[r2] = "handler"
        /\ tenant_id[r1] # tenant_id[r2]

\* C9: dispatch is a pure read of the registry: no step of a request, whether
\* the request succeeds or fails, changes the mapping (its key set or any
\* handle in it), opens a connection or touches the lock, and the mapping is
\* fixed once initialization has ended.
C9_DispatchIsPureRead ==
    [][ /\ (\E r \in Requests : pc'[r] # pc[r]) =>
               /\ connection_pools' = connection_pools
               /\ next_conn' = next_conn
               /\ lock' = lock
        /\ init_pc = "done" =>
               /\ connection_pools' = connection_pools
               /\ init_pc' = "done" ]_vars

C9_Witness ==
    \E r1, r2 \in Requests :
        /\ pc[r1] = "returned"
        /\ pc[r2] = "rejected"
        /\ DOMAIN connection_pools # {}

\* C10: every acquire of a tenant's connection that succeeds is matched by
\* exactly one release on every exit path of the request: a request that was
\* given its tenant's connection (line 37) and has left __call__, by return
\* or by the handler's exception, has given it back and no longer holds it.
C10_ReleasedOnEveryExit ==
    \A r \in Requests :
        pc[r] \in {"returned", "raised"} => req_db_pool[r] = None

\* C11: each tenant's pool is bounded at max = 20 connections: never more
\* than 20 requests hold a connection of one tenant at the same time (the
\* 21st acquire waits and then fails with Exhausted instead of going on).
C11_PoolBoundedAtMax ==
    \A t \in TenantIds : in_flight[t] <= PoolMax

\* C12: on an unknown tenant the registry only reports the error to its
\* caller and never constructs a protocol-level response itself: nothing
\* that __call__ gives back is a response object it built.
C12_NoProtocolResponse ==
    \A r \in Requests : ~IsJsonResponse(response[r])

\* C13: no process-wide lock serializes dispatch: the lock is never taken,
\* and a request that is not inside its handler can always take its next
\* step, whatever the other requests are doing or stalled in.
C13_NoLockSerializesDispatch ==
    /\ lock = "unlocked"
    /\ \A r \in Requests :
           /\ pc[r] \in {"line32", "line36"} => ENABLED Dispatch(r)
           /\ (Published /\ pc[r] = "idle") => ENABLED Dispatch(r)

C13_Witness ==
    \E r1, r2 \in Requests :
        /\ pc[r1] = "handler" /\ in_flight[tenant_id[r1]] = 1
        /\ pc[r2] = "line32" /\ Contains(tenant_id[r2])
        /\ tenant_id[r1] # tenant_id[r2]

\* C14: when a tenant's database has become unreachable after its
\* construction succeeded, dispatch for that tenant still passes the test and
\* returns the tenant's handle: the outcome depends only on membership in
\* the mapping, not on the health of the connection.
C14_UnreachableStillResolves ==
    \A r \in Requests :
        /\ Resolved(r) => (Forwarded(r) <=> Contains(tenant_id[r]))
        /\ tenant_id[r] \in unreachable =>
               /\ pc[r] = "line32" =>
                      ENABLED PassKnown(r) /\ ~ENABLED RejectUnknown(r)
               /\ pc[r] = "line36" => ENABLED Attach(r)
               /\ Resolved(r) =>
                      /\ Forwarded(r)
                      /\ req_db_pool[r] = connection_pools[tenant_id[r]]

C14_Witness ==
    \E r, q \in Requests :
        /\ pc[r] = "line32" /\ tenant_id[r] \in unreachable
        /\ pc[q] = "handler" /\ tenant_id[q] = tenant_id[r]

\* C15: dispatch is deterministic in the tenant id: any two successful
\* dispatches with the same tenant id attach the identical handle, the one
\* object stored at startup, so all requests of one tenant in flight share
\* one connection object and no connection is opened after startup.
C15_SameTenantSameHandle ==
    /\ \A r, q \in Requests :
           (Forwarded(r) /\ Forwarded(q) /\ tenant_id[r] = tenant_id[q]) =>
               /\ req_db_pool[r] = req_db_pool[q]
               /\ next_seen[r] = next_seen[q]
    /\ \A r \in Requests :
           Forwarded(r) => req_db_pool[r] = connection_pools[tenant_id[r]]
    /\ Published => next_conn = Cardinality(DOMAIN connection_pools)

C15_Witness ==
    \E r, q \in Requests :
        /\ r # q
        /\ pc[r] = "handler" /\ pc[q] = "handler"
        /\ tenant_id[r] = tenant_id[q]
        /\ in_flight[tenant_id[r]] = 2

\* C16: initialization attempts each tenant's construction exactly once and
\* never retries, so a tenant whose construction failed at startup gets the
\* unknown-tenant error on every later dispatch.
C16_FailedStaysUnknown ==
    /\ \A i, j \in DOMAIN connect_log :
           connect_log[i].tenant = connect_log[j].tenant => i = j
    /\ Published =>
           {connect_log[i].tenant : i \in DOMAIN connect_log} =
               {settings[i] : i \in DOMAIN settings}
    /\ \A t \in Failed : ~Contains(t)
    /\ \A r \in Requests :
           tenant_id[r] \in Failed =>
               /\ pc[r] = "line32" =>
                      ENABLED RejectUnknown(r) /\ ~ENABLED PassKnown(r)
               /\ pc[r] # "line36"
               /\ Resolved(r) =>
                      pc[r] = "rejected" /\ response[r] = "Invalid tenant"

C16_Witness ==
    \E r, q \in Requests :
        /\ r # q
        /\ tenant_id[r] \in Failed /\ tenant_id[q] = tenant_id[r]
        /\ pc[r] = "rejected" /\ pc[q] = "rejected"

=============================================================================
